---- MODULE Spec2Model ----
(***************************************************************************)
(* TypeScriptToCairoConverter (templates/logic/src/converter.ts).          *)
(*                                                                         *)
(* The converter object holds a parsed source file and a contract model.  *)
(* convert() walks the syntax tree, appends storage fields and functions  *)
(* to the contract model and renders the model as Cairo text.             *)
(*                                                                         *)
(* A syntax node is a record [kind, text, kids]:                           *)
(*   kind  the ts.SyntaxKind the node-kind predicates discriminate on,     *)
(*   text  the source text of a leaf (identifier, type annotation, token)  *)
(*         and, for a declaration or a property access, the text of its    *)
(*         name identifier (name.getText()); "" when there is no name,     *)
(*   kids  the children ts.forEachChild enumerates, in document order      *)
(*         (the name identifier, folded into text, is left out: no visitor *)
(*         of the converter reacts to a bare identifier).                  *)
(* Text is a TLA+ string; template literals are \o concatenations.         *)
(***************************************************************************)
EXTENDS Integers, Sequences, FiniteSets, TLC

VARIABLES sourceFile, contract, result, runs

vars == <<sourceFile, contract, result, runs>>

(***************************************************************************)
(* Bounds of the input space and of the number of convert() calls.        *)
(***************************************************************************)
MaxStmts == 2
MaxMembers == 2
MaxTop == 2
MaxRuns == 2

----------------------------------------------------------------------------
(* Syntax tree: constructors and the accessors the converter uses.         *)

Node(k, t, c) == [kind |-> k, text |-> t, kids |-> c]

\* A predicate that takes class expressions for class declarations.
isClassDeclaration_orExpression(node) ==
    node.kind \in {"ClassDeclaration", "ClassExpression"}

isClassDeclaration(node) == node.kind = "ClassDeclaration"
isPropertyDeclaration(node) == node.kind = "PropertyDeclaration"
isMethodDeclaration(node) == node.kind = "MethodDeclaration"
isBinaryExpression(node) == node.kind = "BinaryExpression"
isPropertyAccessExpression(node) == node.kind = "PropertyAccessExpression"
isReturnStatement(node) == node.kind = "ReturnStatement"
isIdentifier(node) == node.kind = "Identifier"

\* The children of `node` that have kind k, in order.
RECURSIVE OfKind(_, _)
OfKind(nodes, k) ==
    IF Len(nodes) = 0 THEN <<>>
    ELSE (IF Head(nodes).kind = k THEN <<Head(nodes)>> ELSE <<>>)
            \o OfKind(Tail(nodes), k)
KidsOfKind(node, k) == OfKind(node.kids, k)

\* node.type of a property, method or parameter: its type annotation, if any.
TypeOf(node) == KidsOfKind(node, "TypeNode")
\* node.body of a method: its block, if any.
BodyOf(node) == KidsOfKind(node, "Block")
\* ts.getDecorators(node)
getDecorators(node) == KidsOfKind(node, "Decorator")
\* node.parameters
ParametersOf(node) == KidsOfKind(node, "Parameter")
\* node.members of a class: the class elements among its children.
MembersOf(node) == node.kids

\* node.getText(): the source text of an expression, a type or a name.
RECURSIVE getText(_)
getText(node) ==
    CASE node.kind = "PropertyAccessExpression" ->
            getText(node.kids[1]) \o "." \o node.text
      [] node.kind = "BinaryExpression" ->
            getText(node.kids[1]) \o " " \o getText(node.kids[2])
                \o " " \o getText(node.kids[3])
      [] OTHER -> node.text

----------------------------------------------------------------------------
(* Array helpers with the semantics of the JavaScript built-ins.           *)

RECURSIVE Join(_, _)
Join(s, sep) ==
    IF Len(s) = 0 THEN ""
    ELSE IF Len(s) = 1 THEN s[1]
    ELSE s[1] \o sep \o Join(Tail(s), sep)

\* [...new Set(arr)]: distinct elements in first-occurrence order.
RECURSIVE Dedup(_, _)
Dedup(s, seen) ==
    IF Len(s) = 0 THEN <<>>
    ELSE IF Head(s) \in seen THEN Dedup(Tail(s), seen)
    ELSE <<Head(s)>> \o Dedup(Tail(s), seen \cup {Head(s)})

\* `${arr[0]}`: an index past the end reads undefined, rendered "undefined".
First(s) == IF Len(s) > 0 THEN s[1] ELSE "undefined"

----------------------------------------------------------------------------
(* Type mapper.                                                            *)

typeMap ==
    ("number" :> "felt252") @@ ("string" :> "felt252") @@
    ("boolean" :> "bool") @@ ("bigint" :> "u256")

\* A lookup that ignores the case of the first letter of Boolean.
convertType_caseFolded(typeNode) ==
    LET typeText == getText(typeNode)
        folded == IF typeText = "Boolean" THEN "boolean" ELSE typeText
    IN  IF folded \in DOMAIN typeMap THEN typeMap[folded] ELSE "felt252"

convertType(typeNode) ==
    LET typeText == getText(typeNode)
    IN  IF typeText \in DOMAIN typeMap THEN typeMap[typeText] ELSE "felt252"

\* member.type ? this.convertType(member.type) : 'felt252'
TypeOrDefault(node) ==
    IF Len(TypeOf(node)) > 0 THEN convertType(TypeOf(node)[1]) ELSE "felt252"

----------------------------------------------------------------------------
(* Decorator checks.                                                       *)

hasViewDecorator(node) ==
    LET decorators == getDecorators(node)
    IN  \E i \in 1..Len(decorators) :
            LET expr == decorators[i].kids[1]
            IN  isIdentifier(expr) /\ expr.text = "view"

----------------------------------------------------------------------------
(* Body analyzer.                                                          *)

IsThisAccess(node) ==
    isPropertyAccessExpression(node) /\ node.kids[1].kind = "ThisKeyword"

\* The visitor of findStateVariableAccess: what it pushes for `node` and then,
\* child by child, for the subtrees below it.
RECURSIVE stateVarsVisitor(_), stateVarsChildren(_)
stateVarsVisitor(node) ==
    (IF IsThisAccess(node) THEN <<node.text>> ELSE <<>>)
        \o stateVarsChildren(node.kids)
stateVarsChildren(kids) ==
    IF Len(kids) = 0 THEN <<>>
    ELSE stateVarsVisitor(Head(kids)) \o stateVarsChildren(Tail(kids))

\* A collection that takes the right-hand sides of binary expressions only.
RECURSIVE readsVisitor(_), readsChildren(_)
readsVisitor(node) ==
    (IF IsThisAccess(node) THEN <<node.text>> ELSE <<>>)
        \o readsChildren(IF isBinaryExpression(node) THEN Tail(node.kids) ELSE node.kids)
readsChildren(kids) ==
    IF Len(kids) = 0 THEN <<>>
    ELSE readsVisitor(Head(kids)) \o readsChildren(Tail(kids))

findStateVariableAccess_readsOnly(node) == Dedup(readsVisitor(node), {})

findStateVariableAccess(node) == Dedup(stateVarsVisitor(node), {})

Modification(node) ==
    LET variable == node.kids[1].text
        op == node.kids[2].kind
        expression ==
            IF op = "PlusEqualsToken"
            THEN "self." \o variable \o ".read() + " \o getText(node.kids[3])
            ELSE IF op = "MinusEqualsToken"
            THEN "self." \o variable \o ".read() - " \o getText(node.kids[3])
            ELSE getText(node.kids[3])
    IN  [type |-> "assignment", variable |-> variable, expression |-> expression]

\* The visitor of extractStateModifications, in the same form.
RECURSIVE modsVisitor(_), modsChildren(_)
modsVisitor(node) ==
    (IF isBinaryExpression(node) /\ IsThisAccess(node.kids[1])
     THEN <<Modification(node)>> ELSE <<>>)
        \o modsChildren(node.kids)
modsChildren(kids) ==
    IF Len(kids) = 0 THEN <<>>
    ELSE modsVisitor(Head(kids)) \o modsChildren(Tail(kids))

extractStateModifications(node) == modsVisitor(node)

RECURSIVE returnVisitor(_, _), returnChildren(_, _)
returnVisitor(node, hasReturn) ==
    LET h == hasReturn \/ isReturnStatement(node)
    IN  IF ~h THEN returnChildren(node.kids, h) ELSE h
returnChildren(kids, hasReturn) ==
    IF Len(kids) = 0 THEN hasReturn
    ELSE returnChildren(Tail(kids), returnVisitor(Head(kids), hasReturn))

hasReturnStatement(node) == returnVisitor(node, FALSE)

----------------------------------------------------------------------------
(* Instruction synthesis.                                                  *)

\* modifications.forEach(mod => body.push(`self.${mod.variable}.write(${mod.expression});`))
RECURSIVE pushWrites(_, _)
pushWrites(modifications, body) ==
    IF Len(modifications) = 0 THEN body
    ELSE pushWrites(Tail(modifications),
            IF Head(modifications).type = "assignment"
            THEN Append(body, "self." \o Head(modifications).variable \o ".write("
                                \o Head(modifications).expression \o ");")
            ELSE body)

\* A synthesis that emits the writes of a view method too.
analyzeFunctionBody_viewWrites(node, isView) ==
    IF Len(BodyOf(node)) = 0 THEN <<>>
    ELSE
        LET body == BodyOf(node)[1]
            stateVars == findStateVariableAccess(body)
            read == "self." \o First(stateVars) \o ".read()"
            writes == pushWrites(extractStateModifications(body), <<>>)
        IN  IF isView \/ hasReturnStatement(body) THEN Append(writes, read)
            ELSE writes

analyzeFunctionBody(node, isView) ==
    IF Len(BodyOf(node)) = 0 THEN <<>>
    ELSE
        LET body == BodyOf(node)[1]
            stateVars == findStateVariableAccess(body)
            read == "self." \o First(stateVars) \o ".read()"
            writes == pushWrites(extractStateModifications(body), <<>>)
        IN  IF isView THEN <<read>>
            ELSE IF hasReturnStatement(body) THEN Append(writes, read)
            ELSE writes

----------------------------------------------------------------------------
(* Model builder.                                                          *)

RECURSIVE processParameters(_)
processParameters(parameters) ==
    IF Len(parameters) = 0 THEN <<>>
    ELSE <<[name |-> Head(parameters).text, type |-> TypeOrDefault(Head(parameters))]>>
            \o processParameters(Tail(parameters))

\* A method declaration always has a name, so the `if (!node.name) return`
\* of processMember never returns early.
processMember(node) ==
    LET isView == hasViewDecorator(node)
    IN  [name |-> node.text,
         parameters |-> processParameters(ParametersOf(node)),
         returnType |-> TypeOrDefault(node),
         visibility |-> "external",
         body |-> analyzeFunctionBody(node, isView),
         isView |-> isView]

\* The two node.members.forEach passes of processClass.
RECURSIVE pushStorage(_, _)
pushStorage(members, storage) ==
    IF Len(members) = 0 THEN storage
    ELSE pushStorage(Tail(members),
            IF isPropertyDeclaration(Head(members))
            THEN Append(storage, [name |-> Head(members).text,
                                  type |-> TypeOrDefault(Head(members))])
            ELSE storage)

RECURSIVE pushFunctions(_, _)
pushFunctions(members, functions) ==
    IF Len(members) = 0 THEN functions
    ELSE pushFunctions(Tail(members),
            IF isMethodDeclaration(Head(members))
            THEN Append(functions, processMember(Head(members)))
            ELSE functions)

processClass(node, c) ==
    [c EXCEPT !.storage = pushStorage(MembersOf(node), @),
              !.functions = pushFunctions(MembersOf(node), @)]

\* processNode acts on class declarations only and recurses into every child of
\* every node, classes included: the class declarations of the tree in the
\* order it reaches them.
RECURSIVE classVisitor(_), classChildren(_)
classVisitor(node) ==
    (IF isClassDeclaration(node) THEN <<node>> ELSE <<>>)
        \o classChildren(node.kids)
classChildren(kids) ==
    IF Len(kids) = 0 THEN <<>>
    ELSE classVisitor(Head(kids)) \o classChildren(Tail(kids))

\* this.contract.name = node.name?.text || 'Contract'; this.processClass(node)
RECURSIVE processClasses(_, _)
processClasses(classes, c) ==
    IF Len(classes) = 0 THEN c
    ELSE processClasses(Tail(classes),
            processClass(Head(classes),
                [c EXCEPT !.name = IF Head(classes).text # ""
                                   THEN Head(classes).text ELSE "Contract"]))

processNode(node, c) == processClasses(classVisitor(node), c)

----------------------------------------------------------------------------
(* Code emitter.                                                           *)

ParamList(func) ==
    Join([i \in 1..Len(func.parameters) |->
        func.parameters[i].name \o ": " \o func.parameters[i].type], ", ")

\* [selfParam, params].filter(Boolean).join(', ')
AllParams(selfParam, params) ==
    Join((IF selfParam # "" THEN <<selfParam>> ELSE <<>>)
            \o (IF params # "" THEN <<params>> ELSE <<>>), ", ")

generateStorageVariables(c) ==
    Join([i \in 1..Len(c.storage) |->
        "        " \o c.storage[i].name \o ": " \o c.storage[i].type], ",\n")

InterfaceFunction(func) ==
    LET selfParam == IF func.isView THEN "self: @TContractState"
                     ELSE "ref self: TContractState"
    IN  "    fn " \o func.name \o "(" \o AllParams(selfParam, ParamList(func))
            \o ") -> " \o func.returnType \o ";"

generateInterfaceFunctions(c) ==
    Join([i \in 1..Len(c.functions) |-> InterfaceFunction(c.functions[i])], "\n")

ImplementationFunction(func) ==
    LET selfParam == IF func.isView THEN "self: @ContractState"
                     ELSE "ref self: ContractState"
    IN  Join(<<"        fn " \o func.name \o "("
                    \o AllParams(selfParam, ParamList(func))
                    \o ") -> " \o func.returnType \o " {">>
             \o [i \in 1..Len(func.body) |-> "            " \o func.body[i]]
             \o <<"        }">>, "\n")

generateImplementationFunctions(c) ==
    Join([i \in 1..Len(c.functions) |-> ImplementationFunction(c.functions[i])], "\n\n")

generateCairoCode(c) ==
    Join(<<"#[starknet::interface]",
           "pub trait I" \o c.name \o "<TContractState> {",
           generateInterfaceFunctions(c),
           "}",
           "",
           "#[starknet::contract]",
           "mod " \o c.name \o " {",
           "    use core::starknet::storage::{StoragePointerReadAccess, StoragePointerWriteAccess};",
           "",
           "    #[storage]",
           "    struct Storage {",
           generateStorageVariables(c),
           "    }",
           "",
           "    #[abi(embed_v0)]",
           "    impl " \o c.name \o "Impl of super::I" \o c.name \o "<ContractState> {",
           generateImplementationFunctions(c),
           "    }",
           "}">>, "\n")

----------------------------------------------------------------------------
(* Syntax trees the parser front end can hand to the converter.            *)

Id(n) == Node("Identifier", n, <<>>)
Num(n) == Node("NumericLiteral", n, <<>>)
This == Node("ThisKeyword", "this", <<>>)
Access(e, f) == Node("PropertyAccessExpression", f, <<e>>)
Field(f) == Access(This, f)
Bin(l, opKind, opText, r) ==
    Node("BinaryExpression", "", <<l, Node(opKind, opText, <<>>), r>>)
ExprStmt(e) == Node("ExpressionStatement", "", <<e>>)
Return(e) == Node("ReturnStatement", "", <<e>>)
Block(stmts) == Node("Block", "", stmts)
If(cond, stmts) == Node("IfStatement", "", <<cond, Block(stmts)>>)
Type(t) == Node("TypeNode", t, <<>>)
Param(n, type) == Node("Parameter", n, type)
Decorator(expr) == Node("Decorator", "", <<expr>>)
Call(callee) == Node("CallExpression", "", <<callee>>)
Property(n, type) == Node("PropertyDeclaration", n, type)
Method(n, decorators, params, type, body) ==
    Node("MethodDeclaration", n, decorators \o params \o type \o body)
Class(n, members) == Node("ClassDeclaration", n, members)
SourceFileOf(stmts) == Node("SourceFile", "", stmts)

SeqsUpTo(S, n) == UNION {[1..k -> S] : k \in 0..n}

\* Operator tokens of a binary expression: kind and text.
Operators ==
    {<<"EqualsToken", "=">>, <<"PlusEqualsToken", "+=">>,
     <<"MinusEqualsToken", "-=">>, <<"AsteriskEqualsToken", "*=">>,
     <<"EqualsEqualsEqualsToken", "===">>}

\* class Inner { limit: bigint; helper() { this.count = amount; } }
InnerClass ==
    Class("Inner", <<Property("limit", <<Type("bigint")>>),
        Method("helper", <<>>, <<>>, <<>>,
            <<Block(<<ExprStmt(Bin(Field("count"), "EqualsToken", "=", Id("amount")))>>)>>)>>)

\* Statements of a method body.
Stmts ==
    {ExprStmt(Bin(Field("balance"), op[1], op[2], Id("amount"))) : op \in Operators}
    \cup {ExprStmt(Bin(Field("count"), "EqualsToken", "=", Id("amount"))),
          ExprStmt(Bin(Field("count"), "PlusEqualsToken", "+=", Num("1"))),
          \* this.balance = this.count + 1
          ExprStmt(Bin(Field("balance"), "EqualsToken", "=",
                       Bin(Field("count"), "PlusToken", "+", Num("1")))),
          \* this.count.total = amount
          ExprStmt(Bin(Access(Field("count"), "total"), "EqualsToken", "=", Id("amount"))),
          \* total = this.count
          ExprStmt(Bin(Id("total"), "EqualsToken", "=", Field("count"))),
          \* amount = 1
          ExprStmt(Bin(Id("amount"), "EqualsToken", "=", Num("1"))),
          Return(Id("amount")),
          Return(Field("balance")),
          Return(Field("count")),
          \* if (amount) { return this.count; }
          If(Id("amount"), <<Return(Field("count"))>>),
          InnerClass,
          \* class Marker { tag: string; }
          Class("Marker", <<Property("tag", <<Type("string")>>)>>)}

ViewDecorator == Decorator(Id("view"))

\* class Vault { balance: number; count; [@view] run(amount: number): number {...} }
BodyPrograms ==
    {SourceFileOf(<<Class("Vault",
        <<Property("balance", <<Type("number")>>),
          Property("count", <<>>),
          Method("run", decorators, <<Param("amount", <<Type("number")>>)>>,
                 <<Type("number")>>, <<Block(body)>>)>>)>>) :
        body \in SeqsUpTo(Stmts, MaxStmts),
        decorators \in {<<>>, <<ViewDecorator>>}}

\* Members of a class body.
Members ==
    {Property("balance", <<Type("number")>>),
     Property("owner", <<Type("string")>>),
     Property("active", <<Type("boolean")>>),
     Property("supply", <<Type("bigint")>>),
     Property("balance", <<Type("boolean")>>),
     Property("Flag", <<Type("Boolean")>>),
     Property("items", <<Type("Array<number>")>>),
     Property("raw", <<>>),
     \* @view get(): number { return this.balance; }
     Method("get", <<ViewDecorator>>, <<>>, <<Type("number")>>,
            <<Block(<<Return(Field("balance"))>>)>>),
     \* @external add(amount: number, memo): number
     \*     { this.balance += amount; return this.balance; }
     Method("add", <<Decorator(Id("external"))>>,
            <<Param("amount", <<Type("number")>>), Param("memo", <<>>)>>,
            <<Type("number")>>,
            <<Block(<<ExprStmt(Bin(Field("balance"), "PlusEqualsToken", "+=", Id("amount"))),
                      Return(Field("balance"))>>)>>),
     \* @view() peek() { return this.supply; }
     Method("peek", <<Decorator(Call(Id("view")))>>, <<>>, <<>>,
            <<Block(<<Return(Field("supply"))>>)>>),
     \* @view total(): bigint;
     Method("total", <<ViewDecorator>>, <<>>, <<Type("bigint")>>, <<>>),
     \* noop() {}
     Method("noop", <<>>, <<>>, <<>>, <<Block(<<>>)>>),
     \* @view ping(): boolean { return true; }
     Method("ping", <<ViewDecorator>>, <<>>, <<Type("boolean")>>,
            <<Block(<<Return(Node("TrueKeyword", "true", <<>>))>>)>>),
     \* outer() { class Inner {...} }
     Method("outer", <<>>, <<>>, <<>>, <<Block(<<InnerClass>>)>>)}

MemberPrograms ==
    {SourceFileOf(<<Class("Token", members)>>) : members \in SeqsUpTo(Members, MaxMembers)}

\* Top-level statements of a source file.
TopStatements ==
    {\* class A { x: number; f() { this.x = v; } }
     Class("A", <<Property("x", <<Type("number")>>),
        Method("f", <<>>, <<>>, <<>>,
            <<Block(<<ExprStmt(Bin(Field("x"), "EqualsToken", "=", Id("v")))>>)>>)>>),
     \* class B { y: boolean; @view g(): boolean { return this.y; } }
     Class("B", <<Property("y", <<Type("boolean")>>),
        Method("g", <<ViewDecorator>>, <<>>, <<Type("boolean")>>,
            <<Block(<<Return(Field("y"))>>)>>)>>),
     \* export default class { z: bigint; }
     Class("", <<Property("z", <<Type("bigint")>>)>>),
     \* const K = class { w: number; h() { this.w += 1; } };
     Node("VariableStatement", "", <<Node("ClassExpression", "",
        <<Property("w", <<Type("number")>>),
          Method("h", <<>>, <<>>, <<>>,
            <<Block(<<ExprStmt(Bin(Field("w"), "PlusEqualsToken", "+=", Num("1")))>>)>>)>>)>>),
     \* interface IToken { total: number; }
     Node("InterfaceDeclaration", "IToken",
        <<Node("PropertySignature", "total", <<Type("number")>>)>>),
     \* function helper() { this.x = 1; return this.x; }
     Node("FunctionDeclaration", "helper",
        <<Block(<<ExprStmt(Bin(Field("x"), "EqualsToken", "=", Num("1"))),
                  Return(Field("x"))>>)>>),
     \* function make() { class Local { l: string; } }
     Node("FunctionDeclaration", "make",
        <<Block(<<Class("Local", <<Property("l", <<Type("string")>>)>>)>>)>>)}

TopPrograms == {SourceFileOf(stmts) : stmts \in SeqsUpTo(TopStatements, MaxTop)}

Programs == BodyPrograms \cup MemberPrograms \cup TopPrograms

----------------------------------------------------------------------------
(* The converter object.                                                   *)

\* The contract model the constructor creates.
NewContract == [name |-> "", storage |-> <<>>, functions |-> <<>>]

\* new TypeScriptToCairoConverter(sourceCode); result is the text the last
\* convert() returned ("" before the first call), runs counts the calls.
Init ==
    /\ sourceFile \in Programs
    /\ contract = NewContract
    /\ result = ""
    /\ runs = 0

\* convert()
Convert ==
    /\ runs < MaxRuns
    /\ contract' = processNode(sourceFile, contract)
    /\ result' = generateCairoCode(contract')
    /\ runs' = runs + 1
    /\ UNCHANGED sourceFile

Next == Convert

Spec == Init /\ [][Next]_vars

----------------------------------------------------------------------------
(* What the source declares, read off the syntax tree.                     *)

\* Every node of a tree, in depth-first document order.
RECURSIVE Preorder(_), PreorderAll(_)
Preorder(node) == <<node>> \o PreorderAll(node.kids)
PreorderAll(nodes) ==
    IF Len(nodes) = 0 THEN <<>>
    ELSE Preorder(Head(nodes)) \o PreorderAll(Tail(nodes))

Range(s) == {s[i] : i \in 1..Len(s)}
Last(s) == s[Len(s)]

\* The class declarations of the source, in document order.
ClassDecls == OfKind(Preorder(sourceFile), "ClassDeclaration")

\* The direct members of kind k of each class of `classes`, class by class.
RECURSIVE MembersByClass(_, _)
MembersByClass(classes, k) ==
    IF Len(classes) = 0 THEN <<>>
    ELSE OfKind(Head(classes).kids, k) \o MembersByClass(Tail(classes), k)

\* The members of kind k of class declarations, in document order.
RECURSIVE DocMembers(_, _, _), DocMembersAll(_, _, _)
DocMembers(node, inClass, k) ==
    (IF inClass /\ node.kind = k THEN <<node>> ELSE <<>>)
        \o DocMembersAll(node.kids, node.kind = "ClassDeclaration", k)
DocMembersAll(nodes, inClass, k) ==
    IF Len(nodes) = 0 THEN <<>>
    ELSE DocMembers(Head(nodes), inClass, k) \o DocMembersAll(Tail(nodes), inClass, k)

\* The property and method declarations one run works through, in its order.
VisitedProps == MembersByClass(ClassDecls, "PropertyDeclaration")
VisitedMethods == MembersByClass(ClassDecls, "MethodDeclaration")

\* The declaration behind the i-th storage field / function of the model.
PropAt(i) == VisitedProps[((i - 1) % Len(VisitedProps)) + 1]
MethodAt(i) == VisitedMethods[((i - 1) % Len(VisitedMethods)) + 1]

HasBody(m) == Len(BodyOf(m)) > 0
ViewAnnotated(m) ==
    \E d \in Range(OfKind(m.kids, "Decorator")) :
        d.kids[1].kind = "Identifier" /\ d.kids[1].text = "view"

IsThis(node) ==
    node.kind = "PropertyAccessExpression" /\ node.kids[1].kind = "ThisKeyword"

\* The names accessed via `this` below `node`, in document order.
RECURSIVE NamesOf(_)
NamesOf(nodes) ==
    IF Len(nodes) = 0 THEN <<>>
    ELSE (IF IsThis(Head(nodes)) THEN <<Head(nodes).text>> ELSE <<>>)
            \o NamesOf(Tail(nodes))
ThisAccessNames(node) == NamesOf(Preorder(node))

ContainsReturn(node) == \E n \in Range(Preorder(node)) : n.kind = "ReturnStatement"

RecognizedTokens == {"EqualsToken", "PlusEqualsToken", "MinusEqualsToken"}

\* The write a recognized assignment to an instance field stands for.
WriteOf(b) ==
    LET f == b.kids[1].text
        rhs == getText(b.kids[3])
    IN  "self." \o f \o ".write("
            \o (CASE b.kids[2].kind = "PlusEqualsToken" -> "self." \o f \o ".read() + " \o rhs
                  [] b.kids[2].kind = "MinusEqualsToken" -> "self." \o f \o ".read() - " \o rhs
                  [] OTHER -> rhs)
            \o ");"

\* The binary expressions with an instance field on the left, in document order.
RECURSIVE FieldBinaries(_)
FieldBinaries(nodes) ==
    IF Len(nodes) = 0 THEN <<>>
    ELSE (IF Head(nodes).kind = "BinaryExpression" /\ IsThis(Head(nodes).kids[1])
          THEN <<Head(nodes)>> ELSE <<>>) \o FieldBinaries(Tail(nodes))

RECURSIVE RecognizedWrites(_)
RecognizedWrites(bins) ==
    IF Len(bins) = 0 THEN <<>>
    ELSE (IF Head(bins).kids[2].kind \in RecognizedTokens
          THEN <<WriteOf(Head(bins))>> ELSE <<>>) \o RecognizedWrites(Tail(bins))

ExpectedWrites(body) == RecognizedWrites(FieldBinaries(Preorder(body)))

FunctionIndices == 1..Len(contract.functions)
StorageIndices == 1..Len(contract.storage)

----------------------------------------------------------------------------
(* Instruction lists.                                                      *)

TrailingRead(body) ==
    IF ContainsReturn(body) THEN <<"self." \o First(ThisAccessNames(body)) \o ".read()">>
    ELSE <<>>

\* C1: for every method that is not annotated as view and has a body, the
\* instruction list is one write per plain assignment, add-assign or
\* subtract-assign to an instance field, in document order, followed by one
\* trailing read iff the body contains a return statement, and nothing else.
C1_NonViewInstructions ==
    \A i \in FunctionIndices :
        LET m == MethodAt(i)
        IN  (~ViewAnnotated(m) /\ HasBody(m)) =>
                contract.functions[i].body =
                    ExpectedWrites(BodyOf(m)[1]) \o TrailingRead(BodyOf(m)[1])

\* C2 as claimed: for every method annotated as view the instruction list has
\* exactly one element, a read of the first distinct member accessed via `this`
\* in the method body.
C2_ViewSingleRead ==
    \A i \in FunctionIndices :
        LET m == MethodAt(i)
            names == IF HasBody(m) THEN ThisAccessNames(BodyOf(m)[1]) ELSE <<>>
        IN  ViewAnnotated(m) =>
                /\ Len(names) > 0
                /\ contract.functions[i].body = <<"self." \o names[1] \o ".read()">>

\* C2 as amended: a view method without a body has an empty instruction list; a
\* view method with a body has exactly one instruction and no write: a read of
\* the first member accessed via `this` in the body in document order, or of
\* the name `undefined` when the body accesses no member via `this`.
C2_ViewSingleReadAmended ==
    \A i \in FunctionIndices :
        LET m == MethodAt(i)
            names == ThisAccessNames(BodyOf(m)[1])
        IN  ViewAnnotated(m) =>
                /\ contract.functions[i].isView
                /\ contract.functions[i].body =
                    IF ~HasBody(m) THEN <<>>
                    ELSE IF Len(names) > 0 THEN <<"self." \o names[1] \o ".read()">>
                    ELSE <<"self.undefined.read()">>

\* A view method whose body assigns to an instance field has been converted.
C2_Witness ==
    \E i \in FunctionIndices :
        /\ ViewAnnotated(MethodAt(i))
        /\ HasBody(MethodAt(i))
        /\ Len(FieldBinaries(Preorder(BodyOf(MethodAt(i))[1]))) > 0
        /\ Len(contract.functions[i].body) = 1

\* C3: a binary expression with an instance field on the left whose operator is
\* neither plain assignment, add-assign nor subtract-assign yields no mutation
\* entry and no write instruction: a non-view method has as many writes as its
\* body has recognized assignments.
C3_OnlyRecognizedOperators ==
    \A i \in FunctionIndices :
        LET m == MethodAt(i)
            body == BodyOf(m)[1]
        IN  (~ViewAnnotated(m) /\ HasBody(m)) =>
                /\ Len(extractStateModifications(body)) = Len(ExpectedWrites(body))
                /\ Len(contract.functions[i].body) =
                    Len(ExpectedWrites(body)) + Len(TrailingRead(body))

----------------------------------------------------------------------------
(* The contract model and the emitted text.                                *)

NameOf(class) == IF class.text = "" THEN "Contract" ELSE class.text

\* The target type a declaration's annotation stands for.
ExpectedType(decl) ==
    LET annotation == OfKind(decl.kids, "TypeNode")
    IN  IF Len(annotation) = 0 THEN "felt252"
        ELSE CASE annotation[1].text = "number" -> "felt252"
               [] annotation[1].text = "string" -> "felt252"
               [] annotation[1].text = "boolean" -> "bool"
               [] annotation[1].text = "bigint" -> "u256"
               [] OTHER -> "felt252"

RECURSIVE NamesOfDecls(_)
NamesOfDecls(decls) ==
    IF Len(decls) = 0 THEN <<>>
    ELSE <<Head(decls).text>> \o NamesOfDecls(Tail(decls))

RECURSIVE FieldsOfDecls(_)
FieldsOfDecls(decls) ==
    IF Len(decls) = 0 THEN <<>>
    ELSE <<[name |-> Head(decls).text, type |-> ExpectedType(Head(decls))]>>
            \o FieldsOfDecls(Tail(decls))

RECURSIVE NamesOfFunctions(_)
NamesOfFunctions(functions) ==
    IF Len(functions) = 0 THEN <<>>
    ELSE <<Head(functions).name>> \o NamesOfFunctions(Tail(functions))

RECURSIVE StorageLines(_)
StorageLines(fields) ==
    IF Len(fields) = 0 THEN <<>>
    ELSE <<"        " \o Head(fields).name \o ": " \o Head(fields).type>>
            \o StorageLines(Tail(fields))

\* C4: exactly one class declaration contributes to the contract model, the
\* first one in a depth-first traversal of the tree: the name, every storage
\* field and every function come from that class's direct members.
C4_FirstClassOnly ==
    (runs = 1 /\ Len(ClassDecls) > 0) =>
        /\ contract.name = NameOf(ClassDecls[1])
        /\ contract.storage =
            FieldsOfDecls(OfKind(ClassDecls[1].kids, "PropertyDeclaration"))
        /\ NamesOfFunctions(contract.functions) =
            NamesOfDecls(OfKind(ClassDecls[1].kids, "MethodDeclaration"))

\* C5: the storage fields of the model and of the emitted storage block are the
\* declared properties in declaration order, and the functions of the model
\* are the declared methods in declaration order, each exactly once.
C5_DeclarationOrder ==
    runs = 1 =>
        /\ contract.storage =
            FieldsOfDecls(DocMembers(sourceFile, FALSE, "PropertyDeclaration"))
        /\ generateStorageVariables(contract) =
            Join(StorageLines(FieldsOfDecls(
                DocMembers(sourceFile, FALSE, "PropertyDeclaration"))), ",\n")
        /\ NamesOfFunctions(contract.functions) =
            NamesOfDecls(DocMembers(sourceFile, FALSE, "MethodDeclaration"))

\* C6: nothing carries over between runs: every later convert() call on the
\* same converter returns the text the first call returned.
C6_SameTextEveryRun == [][runs >= 1 => result' = result]_vars

EmptyContractText ==
    "#[starknet::interface]\n"
    \o "pub trait I<TContractState> {\n"
    \o "\n"
    \o "}\n"
    \o "\n"
    \o "#[starknet::contract]\n"
    \o "mod  {\n"
    \o "    use core::starknet::storage::{StoragePointerReadAccess, StoragePointerWriteAccess};\n"
    \o "\n"
    \o "    #[storage]\n"
    \o "    struct Storage {\n"
    \o "\n"
    \o "    }\n"
    \o "\n"
    \o "    #[abi(embed_v0)]\n"
    \o "    impl Impl of super::I<ContractState> {\n"
    \o "\n"
    \o "    }\n"
    \o "}"

NoClassDeclaration ==
    \A n \in Range(Preorder(sourceFile)) : n.kind # "ClassDeclaration"

\* C7: for a source with no class declaration conversion is not an error: the
\* model keeps an empty name, an empty storage list and an empty function
\* list, and convert() returns the three blocks with nothing in them.
C7_NoClassDegenerateModel ==
    (NoClassDeclaration /\ runs >= 1) =>
        /\ contract = [name |-> "", storage |-> <<>>, functions |-> <<>>]
        /\ result = EmptyContractText

\* A source that holds statements, a class expression with members among them,
\* but no class declaration, has been converted.
C7_Witness ==
    /\ NoClassDeclaration
    /\ runs >= 1
    /\ \E n \in Range(Preorder(sourceFile)) : n.kind = "PropertyDeclaration"

----------------------------------------------------------------------------
(* The read of an empty state-access collection.                           *)

\* The tree with every occurrence of the subtree m removed.
RECURSIVE Without(_, _), WithoutAll(_, _)
Without(node, m) == [node EXCEPT !.kids = WithoutAll(node.kids, m)]
WithoutAll(nodes, m) ==
    IF Len(nodes) = 0 THEN <<>>
    ELSE (IF Head(nodes) = m THEN <<>> ELSE <<Without(Head(nodes), m)>>)
            \o WithoutAll(Tail(nodes), m)

\* The functions of the model, from the i-th on, that do not come from m.
RECURSIVE FunctionsNotOf(_, _)
FunctionsNotOf(m, i) ==
    IF i > Len(contract.functions) THEN <<>>
    ELSE (IF MethodAt(i) = m THEN <<>> ELSE <<contract.functions[i]>>)
            \o FunctionsNotOf(m, i + 1)

\* A method whose synthesis reads the first element of an empty state-access
\* collection: a body with no member access on `this`, in a view method or
\* with a return statement.
ReadsEmptyCollection(m) ==
    /\ HasBody(m)
    /\ Len(ThisAccessNames(BodyOf(m)[1])) = 0
    /\ ViewAnnotated(m) \/ ContainsReturn(BodyOf(m)[1])

\* C8: when the synthesizer reads the first element of an empty state-access
\* collection, convert() still completes and returns text, and the contract
\* name, the storage fields and the other functions are what they would be
\* without that method.
C8_EmptyAccessLeavesRestIntact ==
    runs = 1 =>
        \A i \in FunctionIndices :
            ReadsEmptyCollection(MethodAt(i)) =>
                LET rest == processNode(Without(sourceFile, MethodAt(i)), NewContract)
                IN  /\ result # ""
                    /\ contract.name = rest.name
                    /\ contract.storage = rest.storage
                    /\ FunctionsNotOf(MethodAt(i), 1) = rest.functions

----------------------------------------------------------------------------
(* Storage types.                                                          *)

\* C9: every storage field carries the name of its property declaration and
\* the target type of its annotation: felt252 for number and for string, bool
\* for boolean, u256 for bigint, and felt252 for any other annotation text
\* and for a missing annotation.
C9_StorageTypes ==
    \A i \in StorageIndices :
        /\ contract.storage[i].name = PropAt(i).text
        /\ contract.storage[i].type = ExpectedType(PropAt(i))

\* A class with a boolean field and a field annotated Boolean has been
\* converted: the first is a bool, the second falls back to felt252.
C9_Witness ==
    \E i, j \in StorageIndices :
        /\ OfKind(PropAt(i).kids, "TypeNode") = <<Type("boolean")>>
        /\ contract.storage[i].type = "bool"
        /\ OfKind(PropAt(j).kids, "TypeNode") = <<Type("Boolean")>>
        /\ contract.storage[j].type = "felt252"

----------------------------------------------------------------------------
(* Mutated fields are accessed fields.                                     *)

MethodBodies ==
    {BodyOf(m)[1] : m \in {n \in Range(Preorder(sourceFile)) :
                                n.kind = "MethodDeclaration" /\ HasBody(n)}}

\* A non-view method with at least one write and a trailing read.
WritesThenReads(i) ==
    /\ ~ViewAnnotated(MethodAt(i))
    /\ HasBody(MethodAt(i))
    /\ Len(FieldBinaries(Preorder(BodyOf(MethodAt(i))[1]))) > 0
    /\ ContainsReturn(BodyOf(MethodAt(i))[1])

\* C10: in every method body each field named by a mutation entry is in the
\* state-access collection of that body; so in a non-view method with a write
\* and a trailing read, the trailing read names the first member the body
\* accesses via `this` in document order, never an empty collection's.
C10_MutatedFieldsAreAccessed ==
    /\ \A body \in MethodBodies :
          \A k \in 1..Len(extractStateModifications(body)) :
              extractStateModifications(body)[k].variable
                  \in Range(findStateVariableAccess(body))
    /\ \A i \in FunctionIndices :
          WritesThenReads(i) =>
              /\ Len(ThisAccessNames(BodyOf(MethodAt(i))[1])) > 0
              /\ Last(contract.functions[i].body) =
                    "self." \o ThisAccessNames(BodyOf(MethodAt(i))[1])[1] \o ".read()"

\* A non-view method with a write and a trailing read has been converted, and
\* its return statement returns a member other than the one the read names.
C10_Witness ==
    \E i \in FunctionIndices :
        /\ WritesThenReads(i)
        /\ \E n \in Range(Preorder(BodyOf(MethodAt(i))[1])) :
              /\ n.kind = "ReturnStatement"
              /\ IsThis(n.kids[1])
              /\ "self." \o n.kids[1].text \o ".read()" # Last(contract.functions[i].body)

====
